---- MODULE Spec2Model ----
(***************************************************************************)
(* Amplitude React Native bridge: the JavaScript facade class Amplitude    *)
(* (named-instance registry, one forwarding method per operation), the     *)
(* messages it puts on the React Native bridge, and the iOS native module  *)
(* ReactNative that turns each message into one call on the vendor SDK     *)
(* instance of the same name and resolves the call's promise.              *)
(***************************************************************************)
EXTENDS Integers, Sequences, FiniteSets, TLC

VARIABLES
    instances,   \* Amplitude._instances: the registry object (static field)
    clients,     \* the Amplitude objects constructed so far; clients[i] is object i
    handle,      \* per caller: the client object it got from getInstance (0: none yet)
    deferred,    \* per caller: the Promise<boolean> its last facade call returned
    bridge,      \* native calls posted by JavaScript and not yet run by the native module
    vendor,      \* the vendor SDK: instances created by name, and the last call made on one
    issued       \* history: the setup calls constructors have made, as <<name, method>>, in order

vars == <<instances, clients, handle, deferred, bridge, vendor, issued>>

-----------------------------------------------------------------------------
(* Bounds of the model *)

\* Amplitude objects constructed in one run
MaxClients == 2
\* native calls in flight on the bridge
MaxBridge == 3

-----------------------------------------------------------------------------
(* Values crossing the bridge.  JavaScript values of different types are     *)
(* kept apart by a tag, so that no conversion can pass as the identity.      *)

\* an optional argument: has = FALSE is JavaScript undefined
Some(x) == [has |-> TRUE, v |-> x]
NoStr == [has |-> FALSE, v |-> ""]
NoNum == [has |-> FALSE, v |-> 0]
NoMap == [has |-> FALSE, v |-> {}]

\* a property value: a string or a number
Str(s) == [t |-> "string", s |-> s, n |-> 0]
Num(n) == [t |-> "number", s |-> "", n |-> n]

\* a property map {k: v, ...} is the set of its <<k, v>> entries
ObjectKeys(map) == {e[1] : e \in map}

\* groupName: string | string[]
Scalar(s) == [isArray |-> FALSE, names |-> <<s>>]
Array(ss) == [isArray |-> TRUE, names |-> ss]
NoGroup == [isArray |-> FALSE, names |-> <<>>]

\* the userProperties object of logRevenue, field by field
NoRevenueProps ==
    [price |-> NoNum, productId |-> NoStr, quantity |-> NoNum, revenueType |-> NoStr,
     receipt |-> NoStr, receiptSignature |-> NoStr, eventProperties |-> NoMap]

\* the arguments of a native call after the instance name; unused ones stay empty
NoArg == [s |-> NoStr, b |-> FALSE, m |-> NoMap, gt |-> NoStr, g |-> NoGroup,
          r |-> NoRevenueProps, p |-> {}]

\* the application's tasks that call the facade; Main is the one that uses
\* every operation
NoCaller == "nobody"
Main == "c1"
Callers == {Main, "c2"}

\* a Promise<boolean>
NoPromise == [st |-> "none", val |-> ""]
Pending == [st |-> "pending", val |-> ""]
Resolved(b) == [st |-> "resolved", val |-> IF b THEN "true" ELSE "false"]
Rejected(e) == [st |-> "rejected", val |-> e]

\* failures the native side of the bridge can answer a call with
Errors == {"E_NATIVE"}

-----------------------------------------------------------------------------
(* Constants of the facade *)

defaultInstanceName == "$default_instance"
packageSourceName == "Constants.packageSourceName"
packageVersion == "Constants.packageVersion"

\* instance names callers use; "__proto__" is an ordinary string for the caller
InstanceNames == {defaultInstanceName, "app2", "__proto__"}

-----------------------------------------------------------------------------
(* The registry object and the Amplitude constructor *)

\* `{}`: an object with no own property, whose prototype is Object.prototype (0)
EmptyObject == [defined |-> TRUE, own |-> [k \in {} |-> 0], proto |-> 0]

\* the static field before the first getInstance: undefined
Undefined == [defined |-> FALSE, own |-> [k \in {} |-> 0], proto |-> 0]

\* Object.prototype.hasOwnProperty.call(obj, key)
hasOwnProperty(obj, key) == key \in DOMAIN obj.own

\* obj[key] = val.  On an object made by `{}` the key "__proto__" is the
\* accessor inherited from Object.prototype: assigning an object to it sets the
\* prototype and creates no own property.
PropertySet(obj, key, val) ==
    IF key = "__proto__"
    THEN [obj EXCEPT !.proto = val]
    ELSE [obj EXCEPT !.own = [k \in (DOMAIN obj.own) \cup {key} |->
                                 IF k = key THEN val ELSE obj.own[k]]]

\* obj[key], for the keys getInstance reads (0: not an Amplitude object)
PropertyGet(obj, key) ==
    IF key = "__proto__" THEN obj.proto
    ELSE IF key \in DOMAIN obj.own THEN obj.own[key]
    ELSE 0

\* a native call as posted on the bridge
NativeCall(method, instanceName, caller, arg) ==
    [method |-> method, instanceName |-> instanceName, caller |-> caller, arg |-> arg]

\* _setLibraryName / _setLibraryVersion: the promise each returns is dropped
setLibraryName(instanceName, libraryName) ==
    NativeCall("setLibraryName", instanceName, NoCaller, [NoArg EXCEPT !.s = Some(libraryName)])

setLibraryVersion(instanceName, libraryVersion) ==
    NativeCall("setLibraryVersion", instanceName, NoCaller, [NoArg EXCEPT !.s = Some(libraryVersion)])

\* mutant: the version is set before the name
Constructor_VersionFirst(instanceName) ==
    << setLibraryVersion(instanceName, packageVersion),
       setLibraryName(instanceName, packageSourceName) >>

\* new Amplitude(instanceName): the native calls the constructor makes, in order
Constructor(instanceName) ==
    << setLibraryName(instanceName, packageSourceName),
       setLibraryVersion(instanceName, packageVersion) >>

\* mutant: the parameter has no default value, undefined becomes the key
DefaultParam_None(arg) == IF arg.has THEN arg.v ELSE "undefined"

\* the default value of getInstance's parameter
DefaultParam(arg) == IF arg.has THEN arg.v ELSE defaultInstanceName

\* Amplitude.getInstance(arg) run on the current state: the registry and the
\* objects after it, the native calls it made, and the object it returns
getInstance(arg) ==
    LET instanceName == DefaultParam(arg)
        reg == IF ~instances.defined THEN EmptyObject ELSE instances
        create == ~hasOwnProperty(reg, instanceName)
        after == IF create THEN PropertySet(reg, instanceName, Len(clients) + 1) ELSE reg
    IN  [instances |-> after,
         clients |-> IF create THEN Append(clients, instanceName) ELSE clients,
         calls |-> IF create THEN Constructor(instanceName) ELSE <<>>,
         ret |-> PropertyGet(after, instanceName)]

-----------------------------------------------------------------------------
(* The Identify payload builder (src/identify.ts is not among the sources:   *)
(* modelled from the specification, section 4.3).  A payload                  *)
(* {op: {key: value}} is the set of its <<op, key, value>> entries.           *)

\* payload[op][key] = value
addOp(payload, op, key, value) ==
    {e \in payload : ~(e[1] = op /\ e[2] = key)} \cup {<<op, key, value>>}

\* the placeholder unset stores
UnsetValue == Str("-")

\* one builder call [fn, key, value] applied to a payload
BuilderCall(payload, call) ==
    CASE call.fn = "add" -> addOp(payload, "$add", call.key, call.value)
      [] call.fn = "append" -> addOp(payload, "$append", call.key, call.value)
      [] call.fn = "prepend" -> addOp(payload, "$prepend", call.key, call.value)
      [] call.fn = "set" -> addOp(payload, "$set", call.key, call.value)
      [] call.fn = "setOnce" -> addOp(payload, "$setOnce", call.key, call.value)
      [] call.fn = "unset" -> addOp(payload, "$unset", call.key, UnsetValue)

\* the payload of a new Identify() after the builder calls of `script`, in order
RECURSIVE Build(_)
Build(script) ==
    IF script = <<>> THEN {}
    ELSE BuilderCall(Build(SubSeq(script, 1, Len(script) - 1)), script[Len(script)])

-----------------------------------------------------------------------------
(* The facade methods: each returns the native call it makes, for the client *)
(* named instanceName.                                                        *)

Request(method, instanceName, arg) == NativeCall(method, instanceName, NoCaller, arg)

\* mutant: a missing api key is replaced by the empty string
init_EmptyKey(instanceName, apiKey) ==
    Request("initialize", instanceName,
            [NoArg EXCEPT !.s = IF apiKey.has THEN apiKey ELSE Some("")])

init(instanceName, apiKey) ==
    Request("initialize", instanceName, [NoArg EXCEPT !.s = apiKey])

\* mutant: the map is sent whenever one is given, an empty one too
logEvent_AnyMap(instanceName, eventType, eventProperties) ==
    IF eventProperties.has
    THEN Request("logEventWithProperties", instanceName,
                 [NoArg EXCEPT !.s = eventType, !.m = eventProperties])
    ELSE Request("logEvent", instanceName, [NoArg EXCEPT !.s = eventType])

logEvent(instanceName, eventType, eventProperties) ==
    IF eventProperties.has /\ Cardinality(ObjectKeys(eventProperties.v)) > 0
    THEN Request("logEventWithProperties", instanceName,
                 [NoArg EXCEPT !.s = eventType, !.m = eventProperties])
    ELSE Request("logEvent", instanceName, [NoArg EXCEPT !.s = eventType])

enableCoppaControl(instanceName) == Request("enableCoppaControl", instanceName, NoArg)

disableCoppaControl(instanceName) == Request("disableCoppaControl", instanceName, NoArg)

regenerateDeviceId(instanceName) == Request("regenerateDeviceId", instanceName, NoArg)

setOptOut(instanceName, optOut) ==
    Request("setOptOut", instanceName, [NoArg EXCEPT !.b = optOut])

trackingSessionEvents(instanceName, trackSessionEvents) ==
    Request("trackingSessionEvents", instanceName, [NoArg EXCEPT !.b = trackSessionEvents])

setUserId(instanceName, userId) ==
    Request("setUserId", instanceName, [NoArg EXCEPT !.s = userId])

setServerUrl(instanceName, serverUrl) ==
    Request("setServerUrl", instanceName, [NoArg EXCEPT !.s = serverUrl])

setUseDynamicConfig(instanceName, useDynamicConfig) ==
    Request("setUseDynamicConfig", instanceName, [NoArg EXCEPT !.b = useDynamicConfig])

logRevenue(instanceName, userProperties) ==
    Request("logRevenueV2", instanceName, [NoArg EXCEPT !.r = userProperties])

identify(instanceName, payload) ==
    Request("identify", instanceName, [NoArg EXCEPT !.p = payload])

\* mutant: a single name is wrapped into an array
setGroup_Wrap(instanceName, groupType, groupName) ==
    Request("setGroup", instanceName,
            [NoArg EXCEPT !.gt = groupType, !.g = [groupName EXCEPT !.isArray = TRUE]])

setGroup(instanceName, groupType, groupName) ==
    Request("setGroup", instanceName, [NoArg EXCEPT !.gt = groupType, !.g = groupName])

groupIdentify(instanceName, groupType, groupName, payload) ==
    Request("groupIdentify", instanceName,
            [NoArg EXCEPT !.gt = groupType, !.g = groupName, !.p = payload])

setUserProperties(instanceName, userProperties) ==
    Request("setUserProperties", instanceName, [NoArg EXCEPT !.m = userProperties])

clearUserProperties(instanceName) == Request("clearUserProperties", instanceName, NoArg)

\* mutant: the call is made for the default instance
uploadEvents_Default(instanceName) == Request("uploadEvents", defaultInstanceName, NoArg)

uploadEvents(instanceName) == Request("uploadEvents", instanceName, NoArg)

-----------------------------------------------------------------------------
(* The iOS native module.  Each entry point makes one call on the vendor     *)
(* instance Amplitude.instance(withName: instanceName) and settles the       *)
(* promise.                                                                   *)

\* receipt.data(using: .utf8): the bytes of the string, not the string
NoData == [has |-> FALSE, bytes |-> "", encoding |-> ""]
Utf8Data(string) == [has |-> TRUE, bytes |-> string, encoding |-> "utf8"]

\* AMPRevenue(): nothing set yet
AMPRevenue ==
    [productIdentifier |-> NoStr, price |-> NoNum, quantity |-> NoNum,
     revenueType |-> NoStr, receipt |-> NoData, eventProperties |-> NoMap]

\* unset passes the key alone
NoValue == [t |-> "none", s |-> "", n |-> 0]

\* what a vendor call is given; unused parts stay empty.  idf is the
\* AMPIdentify, as the set of builder calls made on it.
NoVendorArg == [s |-> NoStr, b |-> FALSE, m |-> NoMap, gt |-> NoStr, g |-> NoGroup,
                rev |-> AMPRevenue, idf |-> {}]

\* Amplitude.instance(withName: instance).<method>(arg), then <settle>
Did(instance, method, arg, settle) ==
    [instance |-> instance, method |-> method, arg |-> arg, settle |-> settle]

NoVendorCall == Did("", "", NoVendorArg, NoPromise)

\* mutant: the quantity is left alone when none is given
createRevenue_NoDefault(userProperties) ==
    [productIdentifier |-> userProperties.productId, price |-> userProperties.price,
     quantity |-> userProperties.quantity, revenueType |-> userProperties.revenueType,
     receipt |-> IF userProperties.receipt.has
                 THEN Utf8Data(userProperties.receipt.v) ELSE NoData,
     eventProperties |-> userProperties.eventProperties]

createRevenue(userProperties) ==
    LET r1 == IF userProperties.productId.has
              THEN [AMPRevenue EXCEPT !.productIdentifier = Some(userProperties.productId.v)]
              ELSE AMPRevenue
        r2 == IF userProperties.price.has
              THEN [r1 EXCEPT !.price = Some(userProperties.price.v)]
              ELSE r1
        r3 == IF userProperties.quantity.has
              THEN [r2 EXCEPT !.quantity = Some(userProperties.quantity.v)]
              ELSE [r2 EXCEPT !.quantity = Some(1)]
        r4 == IF userProperties.revenueType.has
              THEN [r3 EXCEPT !.revenueType = Some(userProperties.revenueType.v)]
              ELSE r3
        r5 == IF userProperties.receipt.has
              THEN [r4 EXCEPT !.receipt = Utf8Data(userProperties.receipt.v)]
              ELSE r4
    IN  IF userProperties.eventProperties.has
        THEN [r5 EXCEPT !.eventProperties = Some(userProperties.eventProperties.v)]
        ELSE r5

\* mutant: $setOnce falls into the $set case
IdentifyCase_SetOnceAsSet(operation, key, value) ==
    CASE operation = "$add" -> {[op |-> "add", key |-> key, value |-> value]}
      [] operation = "$append" -> {[op |-> "append", key |-> key, value |-> value]}
      [] operation = "$prepend" -> {[op |-> "prepend", key |-> key, value |-> value]}
      [] operation \in {"$set", "$setOnce"} -> {[op |-> "set", key |-> key, value |-> value]}
      [] operation = "$unset" -> {[op |-> "unset", key |-> key, value |-> NoValue]}
      [] OTHER -> {}

\* the builder call createIdentify makes for one (operation, key, value) of the
\* payload; {} for an operation it does not know
IdentifyCase(operation, key, value) ==
    CASE operation = "$add" -> {[op |-> "add", key |-> key, value |-> value]}
      [] operation = "$append" -> {[op |-> "append", key |-> key, value |-> value]}
      [] operation = "$prepend" -> {[op |-> "prepend", key |-> key, value |-> value]}
      [] operation = "$set" -> {[op |-> "set", key |-> key, value |-> value]}
      [] operation = "$setOnce" -> {[op |-> "setOnce", key |-> key, value |-> value]}
      [] operation = "$unset" -> {[op |-> "unset", key |-> key, value |-> NoValue]}
      [] OTHER -> {}

\* the loops run over dictionaries, in no specified order: the AMPIdentify is
\* kept as the set of the calls made on it
createIdentify(userProperties) ==
    UNION {IdentifyCase(e[1], e[2], e[3]) : e \in userProperties}

ReactNative_initialize(m) ==
    Did(m.instanceName, "initializeApiKey", [NoVendorArg EXCEPT !.s = m.arg.s], Resolved(TRUE))

ReactNative_enableCoppaControl(m) ==
    Did(m.instanceName, "enableCoppaControl", NoVendorArg, Resolved(TRUE))

ReactNative_disableCoppaControl(m) ==
    Did(m.instanceName, "disableCoppaControl", NoVendorArg, Resolved(TRUE))

ReactNative_regenerateDeviceId(m) ==
    Did(m.instanceName, "regenerateDeviceId", NoVendorArg, Resolved(TRUE))

ReactNative_setOptOut(m) ==
    Did(m.instanceName, "optOut=", [NoVendorArg EXCEPT !.b = m.arg.b], Resolved(TRUE))

ReactNative_setLibraryName(m) ==
    Did(m.instanceName, "libraryName=", [NoVendorArg EXCEPT !.s = m.arg.s], Resolved(TRUE))

ReactNative_setLibraryVersion(m) ==
    Did(m.instanceName, "libraryVersion=", [NoVendorArg EXCEPT !.s = m.arg.s], Resolved(TRUE))

ReactNative_trackingSessionEvents(m) ==
    Did(m.instanceName, "trackingSessionEvents=", [NoVendorArg EXCEPT !.b = m.arg.b],
        Resolved(TRUE))

ReactNative_setUseDynamicConfig(m) ==
    Did(m.instanceName, "useDynamicConfig=", [NoVendorArg EXCEPT !.b = m.arg.b], Resolved(TRUE))

ReactNative_setUserId(m) ==
    Did(m.instanceName, "setUserId", [NoVendorArg EXCEPT !.s = m.arg.s], Resolved(TRUE))

ReactNative_setServerUrl(m) ==
    Did(m.instanceName, "setServerUrl", [NoVendorArg EXCEPT !.s = m.arg.s], Resolved(TRUE))

ReactNative_logEvent(m) ==
    Did(m.instanceName, "logEvent", [NoVendorArg EXCEPT !.s = m.arg.s], Resolved(TRUE))

ReactNative_logEventWithProperties(m) ==
    Did(m.instanceName, "logEvent:withEventProperties",
        [NoVendorArg EXCEPT !.s = m.arg.s, !.m = m.arg.m], Resolved(TRUE))

ReactNative_logRevenueV2(m) ==
    Did(m.instanceName, "logRevenueV2", [NoVendorArg EXCEPT !.rev = createRevenue(m.arg.r)],
        Resolved(TRUE))

ReactNative_identify(m) ==
    Did(m.instanceName, "identify", [NoVendorArg EXCEPT !.idf = createIdentify(m.arg.p)],
        Resolved(TRUE))

ReactNative_groupIdentify(m) ==
    Did(m.instanceName, "groupIdentify",
        [NoVendorArg EXCEPT !.gt = m.arg.gt, !.g = m.arg.g, !.idf = createIdentify(m.arg.p)],
        Resolved(TRUE))

ReactNative_setGroup(m) ==
    Did(m.instanceName, "setGroup", [NoVendorArg EXCEPT !.gt = m.arg.gt, !.g = m.arg.g],
        Resolved(TRUE))

ReactNative_setUserProperties(m) ==
    Did(m.instanceName, "setUserProperties", [NoVendorArg EXCEPT !.m = m.arg.m], Resolved(TRUE))

ReactNative_clearUserProperties(m) ==
    Did(m.instanceName, "clearUserProperties", NoVendorArg, Resolved(TRUE))

\* mutant: the entry point returns without calling resolve
ReactNative_uploadEvents_NoResolve(m) ==
    Did(m.instanceName, "uploadEvents", NoVendorArg, Pending)

ReactNative_uploadEvents(m) ==
    Did(m.instanceName, "uploadEvents", NoVendorArg, Resolved(TRUE))

\* RCT_EXTERN_METHOD: the entry point a posted call runs, by its method name
ExternMethod(m) ==
    CASE m.method = "initialize" -> ReactNative_initialize(m)
      [] m.method = "enableCoppaControl" -> ReactNative_enableCoppaControl(m)
      [] m.method = "disableCoppaControl" -> ReactNative_disableCoppaControl(m)
      [] m.method = "regenerateDeviceId" -> ReactNative_regenerateDeviceId(m)
      [] m.method = "setOptOut" -> ReactNative_setOptOut(m)
      [] m.method = "setLibraryName" -> ReactNative_setLibraryName(m)
      [] m.method = "setLibraryVersion" -> ReactNative_setLibraryVersion(m)
      [] m.method = "trackingSessionEvents" -> ReactNative_trackingSessionEvents(m)
      [] m.method = "setUseDynamicConfig" -> ReactNative_setUseDynamicConfig(m)
      [] m.method = "setUserId" -> ReactNative_setUserId(m)
      [] m.method = "setServerUrl" -> ReactNative_setServerUrl(m)
      [] m.method = "logEvent" -> ReactNative_logEvent(m)
      [] m.method = "logEventWithProperties" -> ReactNative_logEventWithProperties(m)
      [] m.method = "setUserProperties" -> ReactNative_setUserProperties(m)
      [] m.method = "logRevenueV2" -> ReactNative_logRevenueV2(m)
      [] m.method = "identify" -> ReactNative_identify(m)
      [] m.method = "groupIdentify" -> ReactNative_groupIdentify(m)
      [] m.method = "setGroup" -> ReactNative_setGroup(m)
      [] m.method = "clearUserProperties" -> ReactNative_clearUserProperties(m)
      [] m.method = "uploadEvents" -> ReactNative_uploadEvents(m)

-----------------------------------------------------------------------------
Init ==
    /\ instances = Undefined
    /\ clients = <<>>
    /\ handle = [c \in Callers |-> 0]
    /\ deferred = [c \in Callers |-> NoPromise]
    /\ bridge = <<>>
    /\ vendor = [instances |-> {}, last |-> NoVendorCall]
    /\ issued = <<>>

\* a caller runs between its awaits: it is not suspended on a pending promise
Running(c) == deferred[c].st # "pending"

\* this.instanceName of the client a caller holds
This(c) == clients[handle[c]]

\* mutant: the facade catches the failure and answers false
Returned_Swallow(nativePromise) ==
    IF nativePromise.st = "rejected" THEN Resolved(FALSE) ELSE nativePromise

\* `return AmplitudeReactNative.<method>(...)`: the promise the facade method
\* returns is the native call's promise, so it settles as that one does
Returned(nativePromise) == nativePromise

\* a caller calls Amplitude.getInstance(arg) and keeps the client
GetInstance(c, arg) ==
    LET r == getInstance(arg) IN
    /\ Running(c)
    /\ Len(r.clients) <= MaxClients
    /\ Len(bridge) + Len(r.calls) <= MaxBridge
    /\ instances' = r.instances
    /\ clients' = r.clients
    /\ bridge' = bridge \o r.calls
    /\ handle' = [handle EXCEPT ![c] = r.ret]
    /\ issued' = issued \o [i \in 1..Len(r.calls) |->
                                <<r.calls[i].instanceName, r.calls[i].method>>]
    /\ UNCHANGED <<deferred, vendor>>

\* a caller calls a facade method on its client: the native call goes on the
\* bridge and the caller holds the promise
Post(c, call) ==
    /\ Running(c)
    /\ handle[c] # 0
    /\ Len(bridge) < MaxBridge
    /\ bridge' = Append(bridge, [call EXCEPT !.caller = c])
    /\ deferred' = [deferred EXCEPT ![c] = Pending]
    /\ UNCHANGED <<instances, clients, handle, vendor, issued>>

Call_init(c, apiKey) == Post(c, init(This(c), apiKey))

Call_logEvent(c, eventType, eventProperties) ==
    Post(c, logEvent(This(c), eventType, eventProperties))

Call_enableCoppaControl(c) == Post(c, enableCoppaControl(This(c)))

Call_disableCoppaControl(c) == Post(c, disableCoppaControl(This(c)))

Call_regenerateDeviceId(c) == Post(c, regenerateDeviceId(This(c)))

Call_setOptOut(c, optOut) == Post(c, setOptOut(This(c), optOut))

Call_trackingSessionEvents(c, on) == Post(c, trackingSessionEvents(This(c), on))

Call_setUserId(c, userId) == Post(c, setUserId(This(c), userId))

Call_setServerUrl(c, serverUrl) == Post(c, setServerUrl(This(c), serverUrl))

Call_setUseDynamicConfig(c, on) == Post(c, setUseDynamicConfig(This(c), on))

Call_logRevenue(c, userProperties) == Post(c, logRevenue(This(c), userProperties))

Call_identify(c, payload) == Post(c, identify(This(c), payload))

Call_setGroup(c, groupType, groupName) == Post(c, setGroup(This(c), groupType, groupName))

Call_groupIdentify(c, groupType, groupName, payload) ==
    Post(c, groupIdentify(This(c), groupType, groupName, payload))

Call_setUserProperties(c, userProperties) ==
    Post(c, setUserProperties(This(c), userProperties))

Call_clearUserProperties(c) == Post(c, clearUserProperties(This(c)))

Call_uploadEvents(c) == Post(c, uploadEvents(This(c)))

\* the native module runs the oldest posted call
NativeInvoke ==
    /\ bridge # <<>>
    /\ LET m == Head(bridge)
           d == ExternMethod(m)
       IN  /\ vendor' = [instances |-> vendor.instances \cup {d.instance}, last |-> d]
           /\ deferred' = IF m.caller \in Callers
                          THEN [deferred EXCEPT ![m.caller] = Returned(d.settle)]
                          ELSE deferred
    /\ bridge' = Tail(bridge)
    /\ UNCHANGED <<instances, clients, handle, issued>>

\* the collaborator fails the oldest posted call instead (specification,
\* section 7): its promise is rejected and no vendor call is made
NativeFail(e) ==
    /\ bridge # <<>>
    /\ LET m == Head(bridge)
       IN  deferred' = IF m.caller \in Callers
                       THEN [deferred EXCEPT ![m.caller] = Returned(Rejected(e))]
                       ELSE deferred
    /\ bridge' = Tail(bridge)
    /\ UNCHANGED <<instances, clients, handle, vendor, issued>>

-----------------------------------------------------------------------------
(* The arguments callers use *)

\* a string argument, or none supplied
StrArgs == {Some("x"), NoStr}

InstanceArgs == {Some(n) : n \in InstanceNames} \cup {NoStr}

EventProperties == {NoMap, Some({}), Some({<<"k1", Str("v1")>>, <<"k2", Num(5)>>})}

UserProperties == {Some({}), Some({<<"k1", Str("v1")>>})}

OnlyPrice == [NoRevenueProps EXCEPT !.price = Some(3)]

RevenueProps ==
    { OnlyPrice,
      [OnlyPrice EXCEPT !.quantity = Some(2)],
      [OnlyPrice EXCEPT !.quantity = Some(0)],
      [price |-> Some(3), productId |-> Some("sku"), quantity |-> Some(2),
       revenueType |-> Some("purchase"), receipt |-> Some("rcpt"),
       receiptSignature |-> Some("sig"),
       eventProperties |-> Some({<<"k1", Str("v1")>>})] }

BuilderStep(fn, key, value) == [fn |-> fn, key |-> key, value |-> value]

ExampleScript ==
    << BuilderStep("set", "k1", Str("v1")), BuilderStep("add", "k2", Num(5)),
       BuilderStep("unset", "k3", NoValue) >>

Scripts ==
    { <<>>,
      ExampleScript,
      << BuilderStep("append", "k1", Str("v1")), BuilderStep("prepend", "k1", Str("v2")),
         BuilderStep("setOnce", "k2", Num(5)), BuilderStep("set", "k3", Str("v1")),
         BuilderStep("set", "k3", Str("v2")) >> }

\* payloads built with the builder, and one written by hand with an operation
\* keyword the native module does not know
Payloads ==
    {Build(script) : script \in Scripts}
        \cup {{<<"$clearAll", "k1", Str("-")>>, <<"$set", "k2", Num(5)>>}}

GroupPayloads == {Build(ExampleScript), Build(<<>>)}

GroupTypes == {Some("orgId")}

GroupNames == {Scalar("a"), Array(<<"a">>), Array(<<"a", "b">>)}

-----------------------------------------------------------------------------
Next ==
    \/ \E c \in {Main}, arg \in InstanceArgs : GetInstance(c, arg)
    \/ \E c \in {Main}, apiKey \in StrArgs : Call_init(c, apiKey)
    \/ \E c \in {Main}, eventType \in StrArgs, eventProperties \in EventProperties :
            Call_logEvent(c, eventType, eventProperties)
    \/ \E c \in {Main} : Call_enableCoppaControl(c)
    \/ \E c \in {Main} : Call_disableCoppaControl(c)
    \/ \E c \in {Main} : Call_regenerateDeviceId(c)
    \/ \E c \in {Main}, optOut \in BOOLEAN : Call_setOptOut(c, optOut)
    \/ \E c \in {Main}, on \in BOOLEAN : Call_trackingSessionEvents(c, on)
    \/ \E c \in {Main}, userId \in StrArgs : Call_setUserId(c, userId)
    \/ \E c \in {Main}, serverUrl \in {Some("x")} : Call_setServerUrl(c, serverUrl)
    \/ \E c \in {Main}, on \in BOOLEAN : Call_setUseDynamicConfig(c, on)
    \/ \E c \in {Main}, userProperties \in RevenueProps : Call_logRevenue(c, userProperties)
    \/ \E c \in {Main}, payload \in Payloads : Call_identify(c, payload)
    \/ \E c \in {Main}, groupType \in GroupTypes, groupName \in GroupNames :
            Call_setGroup(c, groupType, groupName)
    \/ \E c \in {Main}, groupType \in GroupTypes, groupName \in GroupNames,
          payload \in GroupPayloads : Call_groupIdentify(c, groupType, groupName, payload)
    \/ \E c \in {Main}, userProperties \in UserProperties :
            Call_setUserProperties(c, userProperties)
    \/ \E c \in {Main} : Call_clearUserProperties(c)
    \/ \E c \in {Main} : Call_uploadEvents(c)
    \/ NativeInvoke
    \/ \E e \in Errors : NativeFail(e)

Spec == Init /\ [][Next]_vars

\* two tasks that look their clients up concurrently, each suspended while a
\* facade call of its own awaits its result
NextRace ==
    \/ \E c \in Callers, arg \in InstanceArgs : GetInstance(c, arg)
    \/ \E c \in Callers, apiKey \in StrArgs : Call_init(c, apiKey)
    \/ \E c \in Callers : Call_uploadEvents(c)
    \/ NativeInvoke
    \/ \E e \in Errors : NativeFail(e)

SpecRace == Init /\ [][NextRace]_vars

\* the facade over the iOS native module alone: every posted call is run by
\* its entry point.  The module's method queue runs each call posted to it,
\* hence the weak fairness of NativeInvoke.
NextIOS ==
    \/ \E c \in {Main}, arg \in InstanceArgs : GetInstance(c, arg)
    \/ \E c \in {Main}, apiKey \in StrArgs : Call_init(c, apiKey)
    \/ \E c \in {Main}, eventType \in StrArgs, eventProperties \in EventProperties :
            Call_logEvent(c, eventType, eventProperties)
    \/ \E c \in {Main} : Call_enableCoppaControl(c)
    \/ \E c \in {Main} : Call_disableCoppaControl(c)
    \/ \E c \in {Main} : Call_regenerateDeviceId(c)
    \/ \E c \in {Main}, optOut \in BOOLEAN : Call_setOptOut(c, optOut)
    \/ \E c \in {Main}, on \in BOOLEAN : Call_trackingSessionEvents(c, on)
    \/ \E c \in {Main}, userId \in StrArgs : Call_setUserId(c, userId)
    \/ \E c \in {Main}, serverUrl \in {Some("x")} : Call_setServerUrl(c, serverUrl)
    \/ \E c \in {Main}, on \in BOOLEAN : Call_setUseDynamicConfig(c, on)
    \/ \E c \in {Main}, userProperties \in RevenueProps : Call_logRevenue(c, userProperties)
    \/ \E c \in {Main}, payload \in Payloads : Call_identify(c, payload)
    \/ \E c \in {Main}, groupType \in GroupTypes, groupName \in GroupNames :
            Call_setGroup(c, groupType, groupName)
    \/ \E c \in {Main}, groupType \in GroupTypes, groupName \in GroupNames,
          payload \in GroupPayloads : Call_groupIdentify(c, groupType, groupName, payload)
    \/ \E c \in {Main}, userProperties \in UserProperties :
            Call_setUserProperties(c, userProperties)
    \/ \E c \in {Main} : Call_clearUserProperties(c)
    \/ \E c \in {Main} : Call_uploadEvents(c)
    \/ NativeInvoke

SpecIOS == Init /\ [][NextIOS]_vars /\ WF_vars(NativeInvoke)

-----------------------------------------------------------------------------
(* Properties *)

\* the Amplitude objects constructed for the name n
ClientsNamed(n) == {i \in 1..Len(clients) : clients[i] = n}

\* the last call posted on the bridge
LastPosted(q) == q[Len(q)]

\* C1: for every instance name n, at most one client is ever constructed for
\* n; a getInstance(n) made when a client for n exists returns that client,
\* constructs nothing and posts no setup call; the first getInstance(n) posts
\* setLibraryName and setLibraryVersion for n once each.
C1_OneClientPerName ==
    /\ [](\A n \in InstanceNames : Cardinality(ClientsNamed(n)) <= 1)
    /\ [][\A c \in Callers, n \in InstanceNames :
            GetInstance(c, Some(n)) =>
                IF ClientsNamed(n) # {}
                THEN /\ handle'[c] \in ClientsNamed(n)
                     /\ clients' = clients
                     /\ bridge' = bridge
                ELSE /\ clients' = Append(clients, n)
                     /\ handle'[c] = Len(clients')
                     /\ bridge' = bridge \o
                          << NativeCall("setLibraryName", n, NoCaller,
                                        [NoArg EXCEPT !.s = Some(packageSourceName)]),
                             NativeCall("setLibraryVersion", n, NoCaller,
                                        [NoArg EXCEPT !.s = Some(packageVersion)]) >>]_vars

\* C2: in every reachable state getInstance() and
\* getInstance('$default_instance') return the same client, named
\* '$default_instance', post the same calls and leave the same registry.
C2_DefaultInstance ==
    LET r == getInstance(NoStr)
    IN  /\ r = getInstance(Some("$default_instance"))
        /\ r.ret \in 1..Len(r.clients)
        /\ r.clients[r.ret] = "$default_instance"

\* C2 witness: the default client exists next to another one and a caller
\* holds it
C2_Witness ==
    /\ hasOwnProperty(instances, "$default_instance")
    /\ handle[Main] = instances.own["$default_instance"]
    /\ Len(clients) >= 2
\* C3: a logEvent(eventType, eventProperties) call posts exactly one native
\* call: logEventWithProperties with the map as given if and only if the map
\* is present and has a key, and logEvent otherwise, so that an absent and an
\* empty map post the same call; the native module turns each into the
\* matching single vendor call, the map unchanged.
C3_LogEventRouting ==
    /\ [][\A c \in Callers, eventType \in StrArgs, eventProperties \in EventProperties :
            Call_logEvent(c, eventType, eventProperties) =>
                bridge' = Append(bridge,
                    IF eventProperties.has /\ eventProperties.v # {}
                    THEN [method |-> "logEventWithProperties", instanceName |-> This(c),
                          caller |-> c,
                          arg |-> [NoArg EXCEPT !.s = eventType, !.m = eventProperties]]
                    ELSE [method |-> "logEvent", instanceName |-> This(c), caller |-> c,
                          arg |-> [NoArg EXCEPT !.s = eventType]])]_vars
    /\ [][NativeInvoke =>
            LET m == Head(bridge) IN
            /\ m.method = "logEventWithProperties" =>
                 vendor'.last = [instance |-> m.instanceName,
                                 method |-> "logEvent:withEventProperties",
                                 arg |-> [NoVendorArg EXCEPT !.s = m.arg.s, !.m = m.arg.m],
                                 settle |-> Resolved(TRUE)]
            /\ m.method = "logEvent" =>
                 vendor'.last = [instance |-> m.instanceName, method |-> "logEvent",
                                 arg |-> [NoVendorArg EXCEPT !.s = m.arg.s],
                                 settle |-> Resolved(TRUE)]]_vars

\* C3 witness: an event with a non-empty map reached the vendor SDK, map intact
C3_Witness ==
    /\ vendor.last.method = "logEvent:withEventProperties"
    /\ vendor.last.arg.m = Some({<<"k1", Str("v1")>>, <<"k2", Num(5)>>})

\* C4: the revenue record goes over the bridge as given; from a record with
\* only price the native module builds a revenue with that price, quantity 1
\* and no other field set, and from a record with a quantity one with that
\* quantity.
C4_RevenueQuantity ==
    /\ [][\A c \in Callers, userProperties \in RevenueProps :
            Call_logRevenue(c, userProperties) =>
                bridge' = Append(bridge,
                    [method |-> "logRevenueV2", instanceName |-> This(c), caller |-> c,
                     arg |-> [NoArg EXCEPT !.r = userProperties]])]_vars
    /\ [][NativeInvoke /\ Head(bridge).method = "logRevenueV2" =>
            LET given == Head(bridge).arg.r
                revenue == vendor'.last.arg.rev
            IN  /\ vendor'.last.method = "logRevenueV2"
                /\ vendor'.last.instance = Head(bridge).instanceName
                /\ revenue.price = given.price
                /\ given.quantity.has => revenue.quantity = given.quantity
                /\ ~given.quantity.has => revenue.quantity = Some(1)
                /\ (/\ ~given.productId.has /\ ~given.quantity.has /\ ~given.revenueType.has
                    /\ ~given.receipt.has /\ ~given.receiptSignature.has
                    /\ ~given.eventProperties.has)
                   => revenue = [productIdentifier |-> NoStr, price |-> given.price,
                                 quantity |-> Some(1), revenueType |-> NoStr,
                                 receipt |-> NoData, eventProperties |-> NoMap]]_vars

\* C4 witness: a revenue logged with only price reached the vendor SDK
C4_Witness ==
    /\ vendor.last.method = "logRevenueV2"
    /\ vendor.last.arg.rev.price = Some(3)
    /\ vendor.last.arg.rev.quantity = Some(1)
    /\ ~vendor.last.arg.rev.productIdentifier.has

\* C5: setGroup and groupIdentify post groupName as given, and the native
\* module hands the vendor SDK the groupName it received: an array stays that
\* array and a string stays a string.
C5_GroupNameUnchanged ==
    /\ [][\A c \in Callers, groupType \in GroupTypes, groupName \in GroupNames :
            /\ Call_setGroup(c, groupType, groupName) =>
                 /\ Len(bridge') = Len(bridge) + 1
                 /\ LastPosted(bridge').method = "setGroup"
                 /\ LastPosted(bridge').arg.g = groupName
            /\ \A payload \in GroupPayloads :
                 Call_groupIdentify(c, groupType, groupName, payload) =>
                    /\ Len(bridge') = Len(bridge) + 1
                    /\ LastPosted(bridge').method = "groupIdentify"
                    /\ LastPosted(bridge').arg.g = groupName]_vars
    /\ [][NativeInvoke /\ Head(bridge).method \in {"setGroup", "groupIdentify"} =>
            /\ vendor'.last.method = Head(bridge).method
            /\ vendor'.last.arg.g = Head(bridge).arg.g
            /\ vendor'.last.arg.gt = Head(bridge).arg.gt]_vars

\* C5 witness: a one-element array reached the vendor SDK, still an array
C5_Witness ==
    /\ vendor.last.method = "setGroup"
    /\ vendor.last.arg.g = [isArray |-> TRUE, names |-> <<"a">>]
\* C6: the client the registry keeps under a name carries that name;
\* getInstance(n) hands out a client named n; every native call a facade method
\* posts carries the name of the client it was called on; and the native
\* module makes the vendor call on the instance of the name the call carries.
C6_InstanceIsolation ==
    /\ [](/\ \A n \in DOMAIN instances.own :
               /\ instances.own[n] \in 1..Len(clients)
               /\ clients[instances.own[n]] = n
          /\ instances.proto # 0 => clients[instances.proto] = "__proto__"
          /\ \A i \in 1..Len(bridge) :
               bridge[i].caller \in Callers =>
                   /\ handle[bridge[i].caller] # 0
                   /\ bridge[i].instanceName = clients[handle[bridge[i].caller]])
    /\ [][\A c \in Callers, n \in InstanceNames :
            GetInstance(c, Some(n)) =>
                /\ handle'[c] \in 1..Len(clients')
                /\ clients'[handle'[c]] = n]_vars
    /\ [][\A c \in Callers :
            (deferred[c].st # "pending" /\ deferred'[c].st = "pending") =>
                /\ bridge' = Append(bridge, LastPosted(bridge'))
                /\ LastPosted(bridge').caller = c
                /\ LastPosted(bridge').instanceName = clients[handle[c]]]_vars
    /\ [][NativeInvoke =>
            /\ vendor'.last.instance = Head(bridge).instanceName
            /\ vendor'.instances = vendor.instances \cup {Head(bridge).instanceName}]_vars

\* C6 witness: a call made on the client named app2 reached the vendor
\* instance app2 while the default instance exists too
C6_Witness ==
    /\ vendor.last.instance = "app2"
    /\ vendor.last.method = "uploadEvents"
    /\ "$default_instance" \in vendor.instances
    /\ handle[Main] # 0
    /\ clients[handle[Main]] = "app2"

\* C7: a facade call posts exactly one native call; the promise its caller
\* holds is rejected with the failure the native call was rejected with and
\* resolved with the value it was resolved with; nothing is posted again after
\* a failure and a settled promise changes only by the caller's next call.
C7_NoErrorTranslation ==
    /\ [][\A c \in Callers :
            (deferred[c].st # "pending" /\ deferred'[c].st = "pending") =>
                /\ Len(bridge') = Len(bridge) + 1
                /\ SubSeq(bridge', 1, Len(bridge)) = bridge
                /\ LastPosted(bridge').caller = c]_vars
    /\ [][\A e \in Errors :
            (NativeFail(e) /\ Head(bridge).caller \in Callers) =>
                /\ deferred'[Head(bridge).caller] = [st |-> "rejected", val |-> e]
                /\ bridge' = Tail(bridge)]_vars
    /\ [][(NativeInvoke /\ Head(bridge).caller \in Callers) =>
                /\ deferred'[Head(bridge).caller] = vendor'.last.settle
                /\ deferred'[Head(bridge).caller] = [st |-> "resolved", val |-> "true"]
                /\ bridge' = Tail(bridge)]_vars
    /\ [][\A c \in Callers :
            deferred[c].st \in {"rejected", "resolved"} =>
                deferred'[c] = deferred[c] \/ deferred'[c].st = "pending"]_vars

\* C7 witness: a caller holds a promise rejected with the native failure
C7_Witness == deferred[Main] = [st |-> "rejected", val |-> "E_NATIVE"]

\* a facade call made with no value for its required argument
MissingArgumentCall(c) ==
    \/ Call_init(c, NoStr)
    \/ Call_setUserId(c, NoStr)
    \/ \E eventProperties \in EventProperties : Call_logEvent(c, NoStr, eventProperties)

\* C8 (as claimed): a facade call made with no value for a required argument
\* is rejected at once and posts no native call.
C8_FailFast ==
    [][\A c \in Callers :
         MissingArgumentCall(c) =>
            /\ bridge' = bridge
            /\ deferred'[c].st = "rejected"]_vars

\* C8 (amended): a facade call made with no value for a required argument is
\* not checked by the facade: it posts exactly one native call, which carries
\* the instance name and the absent value, and its caller holds that call's
\* pending promise.
C8_MissingArgumentForwarded ==
    [][\A c \in Callers :
         MissingArgumentCall(c) =>
            /\ bridge' = Append(bridge, LastPosted(bridge'))
            /\ LastPosted(bridge').method \in
                 {"initialize", "setUserId", "logEvent", "logEventWithProperties"}
            /\ LastPosted(bridge').instanceName = This(c)
            /\ LastPosted(bridge').arg.s = NoStr
            /\ deferred'[c] = [st |-> "pending", val |-> ""]]_vars

\* C8 witness: an initialize call without an api key is on the bridge
C8_Witness ==
    \E i \in 1..Len(bridge) :
        /\ bridge[i].method = "initialize"
        /\ bridge[i].caller = Main
        /\ ~bridge[i].arg.s.has

\* the vendor builder call for a payload operation keyword
VendorOperation(keyword) ==
    CASE keyword = "$add" -> "add" [] keyword = "$append" -> "append"
      [] keyword = "$prepend" -> "prepend" [] keyword = "$set" -> "set"
      [] keyword = "$setOnce" -> "setOnce" [] keyword = "$unset" -> "unset"

\* what the vendor identify object must have been given for a payload
AppliedCalls(payload) ==
    { [op |-> VendorOperation(e[1]), key |-> e[2],
       value |-> IF e[1] = "$unset" THEN [t |-> "none", s |-> "", n |-> 0] ELSE e[3]] :
      e \in {x \in payload :
               x[1] \in {"$add", "$append", "$prepend", "$set", "$setOnce", "$unset"}} }

\* C9: identify and groupIdentify post the whole payload in one native call;
\* the payload built by set('k1','v1'), add('k2',5), unset('k3') is
\* {$set: {k1: 'v1'}, $add: {k2: 5}, $unset: {k3: '-'}}; the native module makes
\* one vendor builder call for every entry of the payload under a known
\* operation, unset with the key alone, and none for any other entry.
C9_IdentifyPayload ==
    /\ [][\A c \in Callers, payload \in Payloads :
            Call_identify(c, payload) =>
                /\ bridge' = Append(bridge,
                      [method |-> "identify", instanceName |-> This(c), caller |-> c,
                       arg |-> [NoArg EXCEPT !.p = payload]])
                /\ payload = Build(ExampleScript) =>
                      LastPosted(bridge').arg.p =
                          { <<"$set", "k1", Str("v1")>>, <<"$add", "k2", Num(5)>>,
                            <<"$unset", "k3", Str("-")>> }]_vars
    /\ [][\A c \in Callers, groupType \in GroupTypes, groupName \in GroupNames,
            payload \in GroupPayloads :
            Call_groupIdentify(c, groupType, groupName, payload) =>
                bridge' = Append(bridge,
                      [method |-> "groupIdentify", instanceName |-> This(c), caller |-> c,
                       arg |-> [NoArg EXCEPT !.gt = groupType, !.g = groupName,
                                             !.p = payload]])]_vars
    /\ [][NativeInvoke /\ Head(bridge).method \in {"identify", "groupIdentify"} =>
            /\ vendor'.last.method = Head(bridge).method
            /\ vendor'.last.arg.idf = AppliedCalls(Head(bridge).arg.p)]_vars

\* C9 witness: the payload of the example reached the vendor SDK as the three
\* builder calls set, add and unset
C9_Witness ==
    /\ vendor.last.method = "identify"
    /\ vendor.last.arg.idf =
         { [op |-> "set", key |-> "k1", value |-> Str("v1")],
           [op |-> "add", key |-> "k2", value |-> Num(5)],
           [op |-> "unset", key |-> "k3", value |-> [t |-> "none", s |-> "", n |-> 0]] }

\* C10: with two tasks looking clients up in any interleaving, also while
\* facade calls await their results, exactly one client is constructed for a
\* name, all tasks that asked for the name hold that client, and a registry
\* entry is never replaced or removed.
C10_SingleWinner ==
    /\ [](/\ \A n \in InstanceNames : Cardinality(ClientsNamed(n)) <= 1
          /\ \A c \in Callers, d \in Callers :
               (handle[c] # 0 /\ handle[d] # 0 /\ clients[handle[c]] = clients[handle[d]])
                   => handle[c] = handle[d])
    /\ [][/\ \A n \in DOMAIN instances.own :
               /\ n \in DOMAIN instances'.own
               /\ instances'.own[n] = instances.own[n]
          /\ instances.proto # 0 => instances'.proto = instances.proto]_vars
\* the setup calls issued so far for the name n, oldest first
SetupIssuedFor(n) == SelectSeq(issued, LAMBDA e : e[1] = n)

\* both setup calls have been issued for n, setLibraryName first
SetupDone(n) ==
    /\ Len(SetupIssuedFor(n)) >= 2
    /\ SetupIssuedFor(n)[1][2] = "setLibraryName"
    /\ SetupIssuedFor(n)[2][2] = "setLibraryVersion"

\* C11: a getInstance that constructs the client for n issues
\* setLibraryName(n, ...) and then setLibraryVersion(n, ...), next to each
\* other and in that order, and returns the new client; every client that
\* exists has had both issued; and a facade call for n is posted only when
\* both setup calls for n have been issued before it.
C11_SetupBeforeUse ==
    /\ [][\A c \in Callers, arg \in InstanceArgs :
            (GetInstance(c, arg) /\ clients' # clients) =>
                LET n == clients'[Len(clients')] IN
                /\ bridge' = bridge \o
                     << [method |-> "setLibraryName", instanceName |-> n,
                         caller |-> NoCaller,
                         arg |-> [NoArg EXCEPT !.s = Some(packageSourceName)]],
                        [method |-> "setLibraryVersion", instanceName |-> n,
                         caller |-> NoCaller,
                         arg |-> [NoArg EXCEPT !.s = Some(packageVersion)]] >>
                /\ issued' = issued \o << <<n, "setLibraryName">>,
                                          <<n, "setLibraryVersion">> >>
                /\ handle'[c] = Len(clients')]_vars
    /\ [](/\ \A i \in 1..Len(clients) : SetupDone(clients[i])
          /\ \A c \in Callers : handle[c] # 0 => SetupDone(clients[handle[c]])
          /\ \A j \in 1..Len(bridge) :
               /\ bridge[j].method = "setLibraryName" =>
                    /\ j < Len(bridge)
                    /\ bridge[j + 1].method = "setLibraryVersion"
                    /\ bridge[j + 1].instanceName = bridge[j].instanceName
               /\ (bridge[j].method = "setLibraryVersion" /\ j > 1) =>
                    /\ bridge[j - 1].method = "setLibraryName"
                    /\ bridge[j - 1].instanceName = bridge[j].instanceName)
    /\ [][\A c \in Callers :
            (deferred[c].st # "pending" /\ deferred'[c].st = "pending") =>
                /\ SetupDone(LastPosted(bridge').instanceName)
                /\ issued' = issued]_vars

\* C11 witness: a facade call for app2 is on the bridge behind the two setup
\* calls of app2, which are still in flight
C11_Witness ==
    /\ Len(bridge) = 3
    /\ bridge[1].method = "setLibraryName" /\ bridge[1].instanceName = "app2"
    /\ bridge[2].method = "setLibraryVersion" /\ bridge[2].instanceName = "app2"
    /\ bridge[3].caller = Main /\ bridge[3].instanceName = "app2"
\* C12: every entry point of the iOS native module makes its vendor call on
\* the instance of the name it was given and then resolves the promise with
\* true, settling that promise alone; no promise is ever rejected; a promise
\* is pending only while its call is on the bridge; and every pending promise
\* is eventually resolved with true.
C12_BridgeResolvesTrue ==
    /\ [][NativeInvoke =>
            LET m == Head(bridge) IN
            /\ vendor'.last.instance = m.instanceName
            /\ vendor'.last.settle = [st |-> "resolved", val |-> "true"]
            /\ bridge' = Tail(bridge)
            /\ \A c \in Callers :
                 deferred'[c] = IF c = m.caller
                                THEN [st |-> "resolved", val |-> "true"]
                                ELSE deferred[c]]_vars
    /\ [](\A c \in Callers :
            /\ deferred[c].st # "rejected"
            /\ deferred[c].st = "pending" <=>
                 Cardinality({i \in 1..Len(bridge) : bridge[i].caller = c}) = 1)
    /\ \A c \in Callers :
         (deferred[c].st = "pending") ~> (deferred[c] = [st |-> "resolved", val |-> "true"])

\* C12 witness: a revenue call was run by its entry point and its caller
\* holds the promise resolved with true
C12_Witness ==
    /\ vendor.last.method = "logRevenueV2"
    /\ vendor.last.settle = [st |-> "resolved", val |-> "true"]
    /\ deferred[Main] = [st |-> "resolved", val |-> "true"]
    /\ bridge = <<>>

====
